---- MODULE Spec2Model ----
(***************************************************************************)
(* The JPEG decoder wrapper (src/codecs/jpeg/decoder.rs), its sequential   *)
(* reader, and the Exif orientation model (src/metadata.rs).               *)
(*                                                                         *)
(* The decoding engine (zune-jpeg) is an external collaborator.  It is     *)
(* modelled by the operators Zune*: a header parse that yields the         *)
(* declared dimensions and colour space, and a full decode that first      *)
(* compares the declared dimensions with the caps of its options, then     *)
(* decodes the body.                                                       *)
(***************************************************************************)
EXTENDS Integers, Sequences, FiniteSets, TLC

\* ------------------------------------------------------------------ bounds
\* Largest header-declared width and height explored.
MaxDim == 2
\* Largest destination slice handed to JpegReader::read.
MaxRead == 3

\* u8::MAX, the range of the Exif orientation code.
U8Max == 255

VARIABLES
    input,              \* JpegDecoder.input: the owned bytes, by what they encode
    width,              \* JpegDecoder.width
    height,             \* JpegDecoder.height
    orig_color_space,   \* JpegDecoder.orig_color_space
    limits,             \* JpegDecoder.limits
    consumed,           \* the decoder was moved into a terminal operation
    op,                 \* the operation that ran last
    result,             \* what it returned: Ok with its value, or an ImageError
    buf,                \* the caller's slice given to read_image or read
    reader,             \* the JpegReader returned by into_reader: Cursor<Vec<u8>>
    decoded,            \* the bytes the engine produced for into_reader
    delivered,          \* all bytes the reader has handed out, in order
    count,              \* the count returned by the last read / read_to_end
    chunk,              \* the bytes the last read / read_to_end handed out
    exif,               \* the u8 given to Orientation::from_exif, if one was given
    orientation,        \* the Orientation in hand: parsed, or picked by the caller
    code,               \* the u8 returned by to_exif, once called
    in_place,           \* the bool returned by applies_in_place, once called
    back                \* from_exif applied to the code that to_exif returned

decoderVars == <<input, width, height, orig_color_space, limits, consumed, op,
                 result, buf, reader, decoded, delivered,
                 count, chunk>>
orientVars == <<exif, orientation, code, in_place, back>>
vars == <<input, width, height, orig_color_space, limits, consumed, op,
          result, buf, reader, decoded, delivered,
          count, chunk, exif, orientation, code, in_place, back>>

\* ----------------------------------------------------------------- options
None == [some |-> FALSE, val |-> 0]
Some(x) == [some |-> TRUE, val |-> x]

Min(a, b) == IF a < b THEN a ELSE b

\* ------------------------------------------------------------------ Limits
\* Limits::no_limits(): every bound unset.
no_limits == [max_image_width |-> None, max_image_height |-> None, max_alloc |-> None]

\* --------------------------------------------------------- colour handling
\* The engine's colour spaces that a JPEG header can announce.
ZuneColorSpace == {"RGB", "RGBA", "Luma", "LumaA", "YCbCr", "CMYK"}

to_supported_color_space(orig) ==
    IF orig \in {"RGB", "RGBA", "Luma", "LumaA"} THEN orig ELSE "RGB"

ColorType_from_jpeg(colorspace) ==
    LET cs == to_supported_color_space(colorspace)
    IN  CASE cs = "RGB" -> "Rgb8"
          [] cs = "RGBA" -> "Rgba8"
          [] cs = "Luma" -> "L8"
          [] cs = "LumaA" -> "La8"

\* ColorType::bytes_per_pixel, for the four 8-bit types the decoder announces.
bytes_per_pixel(ct) ==
    CASE ct = "L8" -> 1
      [] ct = "La8" -> 2
      [] ct = "Rgb8" -> 3
      [] ct = "Rgba8" -> 4

dimensions == <<width, height>>

color_type == ColorType_from_jpeg(orig_color_space)

\* ImageDecoder::total_bytes: the advertised size.
total_bytes == dimensions[1] * dimensions[2] * bytes_per_pixel(color_type)

\* ------------------------------------------------------------------ engine
\* Components per pixel the engine writes for a requested output colour space.
ZuneComponents(cs) ==
    CASE cs \in {"Luma"} -> 1
      [] cs \in {"LumaA"} -> 2
      [] cs \in {"RGB", "YCbCr"} -> 3
      [] cs \in {"RGBA", "CMYK"} -> 4

\* The decoded samples: byte i of the output carries the value i (mod 256).
Pixels(n) == [i \in 1..n |-> i % (U8Max + 1)]

\* DecoderOptions::default(): no cap narrower than the headers construction
\* accepted, output colour space left to the setter.
ZuneDefaultOptions == [out_colorspace |-> "RGB", max_width |-> None, max_height |-> None]

\* JpegDecoder::decode: the header bounds first, then the body.
ZuneDecode(in, options) ==
    IF \/ options.max_width.some /\ in.w > options.max_width.val
       \/ options.max_height.some /\ in.h > options.max_height.val
    THEN [ok |-> FALSE, err |-> "LargeDimensions", data |-> <<>>]
    ELSE IF in.body = "unsupported"
    THEN [ok |-> FALSE, err |-> "Unsupported", data |-> <<>>]
    ELSE IF in.body = "corrupt"
    THEN [ok |-> FALSE, err |-> "Format", data |-> <<>>]
    ELSE [ok |-> TRUE, err |-> "",
          data |-> Pixels(in.w * in.h * ZuneComponents(options.out_colorspace))]

\* decode_headers().ok()? then icc_profile(): the embedded profile, if any.
ZuneIccProfile(in) == IF in.icc THEN Some("icc") ELSE None

\* JpegDecoder::decode_into: as decode, into a slice that must hold the output.
ZuneDecodeInto(in, options, len) ==
    LET r == ZuneDecode(in, options)
    IN  IF r.ok /\ len < Len(r.data)
        THEN [ok |-> FALSE, err |-> "TooSmallOutput", data |-> <<>>]
        ELSE r

\* --------------------------------------------------------- wrapper helpers
\* Variants of new_zune_decoder with a slip in the translation of the limits.
new_zune_decoder_unset_is_zero(in, orig, lim) ==
    [out_colorspace |-> to_supported_color_space(orig),
     max_width |-> IF lim.max_image_width.some
                   THEN Some(lim.max_image_width.val) ELSE Some(0),
     max_height |-> IF lim.max_image_height.some
                    THEN Some(lim.max_image_height.val) ELSE Some(0)]

new_zune_decoder_drops_height(in, orig, lim) ==
    [out_colorspace |-> to_supported_color_space(orig),
     max_width |-> IF lim.max_image_width.some
                   THEN Some(lim.max_image_width.val)
                   ELSE ZuneDefaultOptions.max_width,
     max_height |-> ZuneDefaultOptions.max_height]

new_zune_decoder_keeps_native(in, orig, lim) ==
    [out_colorspace |-> orig,
     max_width |-> IF lim.max_image_width.some
                   THEN Some(lim.max_image_width.val)
                   ELSE ZuneDefaultOptions.max_width,
     max_height |-> IF lim.max_image_height.some
                    THEN Some(lim.max_image_height.val)
                    ELSE ZuneDefaultOptions.max_height]

\* The options of the engine built for a terminal decode.
new_zune_decoder(in, orig, lim) ==
    [out_colorspace |-> to_supported_color_space(orig),
     max_width |-> IF lim.max_image_width.some
                   THEN Some(lim.max_image_width.val)
                   ELSE ZuneDefaultOptions.max_width,
     max_height |-> IF lim.max_image_height.some
                    THEN Some(lim.max_image_height.val)
                    ELSE ZuneDefaultOptions.max_height]

\* A successful return carrying `value` (the empty tuple for unit).
OkWith(value) == [kind |-> "Ok", detail |-> "", value |-> value]
Ok == OkWith(<<>>)
Err(kind, detail) == [kind |-> kind, detail |-> detail, value |-> <<>>]

ImageError_from_jpeg(err) ==
    CASE err = "Unsupported" -> Err("Unsupported", "GenericFeature")
      [] err = "LargeDimensions" -> Err("Limits", "DimensionError")
      [] OTHER -> Err("Decoding", err)

LengthMismatch == Err("Decoding", "LengthMismatch")

NoReader == [some |-> FALSE, data |-> <<>>, pos |-> 0]

\* ------------------------------------------------------------------ inputs
Dims == 1..MaxDim
Bodies == {"ok", "corrupt", "unsupported"}
Inputs == [w : Dims, h : Dims, cs : ZuneColorSpace, body : Bodies, icc : BOOLEAN]

MaxAlloc == MaxDim * MaxDim * 4
DimBounds == {None} \cup {Some(n) : n \in 0..MaxDim}
AllocBounds == {None} \cup {Some(n) : n \in {MaxAlloc \div 2, MaxAlloc}}
LimitsValues == [max_image_width : DimBounds, max_image_height : DimBounds,
                 max_alloc : AllocBounds]

OrientIdle ==
    /\ exif = None
    /\ orientation = "Unset"
    /\ code = None
    /\ in_place = None
    /\ back = "Unset"

\* JpegDecoder::new succeeded on some input: header facts taken from the
\* header parse, limits disabled.
Init ==
    /\ input \in Inputs
    /\ width = input.w
    /\ height = input.h
    /\ orig_color_space = input.cs
    /\ limits = no_limits
    /\ consumed = FALSE
    /\ op = "new"
    /\ result = Ok
    /\ buf = [len |-> 0, written |-> 0]
    /\ reader = NoReader
    /\ decoded = <<>>
    /\ delivered = <<>>
    /\ count = 0
    /\ chunk = <<>>
    /\ OrientIdle

\* ------------------------------------------------------------- operations
\* scale as a backend with decode-time scaling would do it: the request is adopted.
scale_resizes(requested_width, requested_height) ==
    /\ ~consumed
    /\ op' = "scale"
    /\ width' = requested_width
    /\ height' = requested_height
    /\ result' = OkWith(<<requested_width, requested_height>>)
    /\ UNCHANGED <<input, orig_color_space, limits, consumed,
                   buf, reader, decoded, delivered, count, chunk>>
    /\ UNCHANGED orientVars

scale(requested_width, requested_height) ==
    /\ ~consumed
    /\ op' = "scale"
    /\ result' = OkWith(<<width, height>>)
    /\ UNCHANGED <<input, width, height, orig_color_space, limits, consumed,
                   buf, reader, decoded, delivered, count, chunk>>
    /\ UNCHANGED orientVars

set_limits(l) ==
    /\ ~consumed
    /\ op' = "set_limits"
    /\ limits' = l
    /\ result' = Ok
    /\ UNCHANGED <<input, width, height, orig_color_space, consumed,
                   buf, reader, decoded, delivered, count, chunk>>
    /\ UNCHANGED orientVars

icc_profile ==
    /\ ~consumed
    /\ op' = "icc_profile"
    /\ result' = OkWith(<<ZuneIccProfile(input)>>)
    /\ UNCHANGED <<input, width, height, orig_color_space, limits, consumed,
                   buf, reader, decoded, delivered, count, chunk>>
    /\ UNCHANGED orientVars

into_reader ==
    /\ ~consumed
    /\ op' = "into_reader"
    /\ consumed' = TRUE
    /\ LET r == ZuneDecode(input, new_zune_decoder(input, orig_color_space, limits))
       IN  IF r.ok
           THEN /\ result' = Ok
                /\ reader' = [some |-> TRUE, data |-> r.data, pos |-> 0]
                /\ decoded' = r.data
           ELSE /\ result' = ImageError_from_jpeg(r.err)
                /\ UNCHANGED <<reader, decoded>>
    /\ UNCHANGED <<input, width, height, orig_color_space, limits,
                   buf, delivered, count, chunk>>
    /\ UNCHANGED orientVars

\* read_image with the length comparison made after the engine has run.
read_image_engine_first(len) ==
    /\ ~consumed
    /\ op' = "read_image"
    /\ consumed' = TRUE
    /\ LET r == ZuneDecodeInto(input,
                               new_zune_decoder(input, orig_color_space, limits), len)
       IN  IF ~r.ok
           THEN /\ result' = ImageError_from_jpeg(r.err)
                /\ buf' = [len |-> len, written |-> 0]
           ELSE IF len # total_bytes
           THEN /\ result' = LengthMismatch
                /\ buf' = [len |-> len, written |-> Len(r.data)]
           ELSE /\ result' = Ok
                /\ buf' = [len |-> len, written |-> Len(r.data)]
    /\ UNCHANGED <<input, width, height, orig_color_space, limits,
                   reader, decoded, delivered, count, chunk>>
    /\ UNCHANGED orientVars

read_image(len) ==
    /\ ~consumed
    /\ op' = "read_image"
    /\ consumed' = TRUE
    /\ IF len # total_bytes
       THEN /\ result' = LengthMismatch
            /\ buf' = [len |-> len, written |-> 0]
       ELSE LET r == ZuneDecodeInto(input,
                        new_zune_decoder(input, orig_color_space, limits), len)
            IN  IF r.ok
                THEN /\ result' = Ok
                     /\ buf' = [len |-> len, written |-> Len(r.data)]
                ELSE /\ result' = ImageError_from_jpeg(r.err)
                     /\ buf' = [len |-> len, written |-> 0]
    /\ UNCHANGED <<input, width, height, orig_color_space, limits,
                   reader, decoded, delivered, count, chunk>>
    /\ UNCHANGED orientVars

\* Buffer lengths a caller may pass: around the advertised size, and empty.
BufLens == {0, total_bytes - 1, total_bytes, total_bytes + 1}

SetLimits == \E l \in LimitsValues : set_limits(l)
ScaleRequests == {1, MaxDim + 1}
Scale == \E rw \in ScaleRequests, rh \in ScaleRequests : scale(rw, rh)
IccProfile == icc_profile
IntoReader == into_reader
ReadImage == \E len \in BufLens : read_image(len)

Next ==
    \/ SetLimits
    \/ Scale
    \/ IccProfile
    \/ IntoReader
    \/ ReadImage

Spec == Init /\ [][Next]_vars

\* ------------------------------------------------------------- JpegReader
\* What the cursor has not handed out yet.
CursorRest(r) ==
    SubSeq(r.data, Min(r.pos, Len(r.data)) + 1, Len(r.data))

JpegReader_read(k) ==
    /\ reader.some
    /\ op' = "read"
    /\ LET rest == CursorRest(reader)
           n == Min(k, Len(rest))
       IN  /\ chunk' = SubSeq(rest, 1, n)
           /\ reader' = [reader EXCEPT !.pos = reader.pos + n]
           /\ count' = n
           /\ buf' = [len |-> k, written |-> n]
           /\ delivered' = delivered \o SubSeq(rest, 1, n)
    /\ UNCHANGED <<input, width, height, orig_color_space, limits, consumed, result,
                   decoded>>
    /\ UNCHANGED orientVars

\* read_to_end whose fast path clones the decoded vector instead of swapping it out.
JpegReader_read_to_end_copies(vec) ==
    /\ reader.some
    /\ op' = "read_to_end"
    /\ LET fast == reader.pos = 0 /\ vec = <<>>
           rest == CursorRest(reader)
           after == IF fast THEN reader.data ELSE vec \o rest
       IN  /\ reader' = IF fast
                        THEN reader
                        ELSE [reader EXCEPT !.pos = Len(reader.data)]
           /\ count' = IF fast THEN Len(after) ELSE Len(rest)
           /\ chunk' = SubSeq(after, Len(vec) + 1, Len(after))
           /\ buf' = [len |-> Len(after), written |-> Len(after) - Len(vec)]
           /\ delivered' = delivered \o SubSeq(after, Len(vec) + 1, Len(after))
    /\ UNCHANGED <<input, width, height, orig_color_space, limits, consumed, result,
                   decoded>>
    /\ UNCHANGED orientVars

\* `vec` is the destination vector as the caller passes it; `after` is the
\* vector once the call returns.
JpegReader_read_to_end(vec) ==
    /\ reader.some
    /\ op' = "read_to_end"
    /\ LET fast == reader.pos = 0 /\ vec = <<>>
           rest == CursorRest(reader)
           after == IF fast THEN reader.data ELSE vec \o rest
       IN  /\ reader' = IF fast
                        THEN [reader EXCEPT !.data = vec]
                        ELSE [reader EXCEPT !.pos = Len(reader.data)]
           /\ count' = IF fast THEN Len(after) ELSE Len(rest)
           /\ chunk' = SubSeq(after, Len(vec) + 1, Len(after))
           /\ buf' = [len |-> Len(after), written |-> Len(after) - Len(vec)]
           /\ delivered' = delivered \o SubSeq(after, Len(vec) + 1, Len(after))
    /\ UNCHANGED <<input, width, height, orig_color_space, limits, consumed, result,
                   decoded>>
    /\ UNCHANGED orientVars

\* Destination vectors a caller may pass to read_to_end: empty, or holding data.
DestVecs == {<<>>, <<U8Max>>}

Read == \E k \in 0..MaxRead : JpegReader_read(k)
ReadToEnd == \E vec \in DestVecs : JpegReader_read_to_end(vec)

NextReader ==
    \/ IntoReader
    \/ Read
    \/ ReadToEnd

SpecReader == Init /\ [][NextReader]_vars

\* ------------------------------------------------------------ Orientation
Variants == {"NoTransforms", "Rotate90", "Rotate180", "Rotate270",
             "FlipHorizontal", "FlipVertical", "Rotate90FlipH", "Rotate270FlipH"}

\* from_exif with the arms of the codes 5 and 7 exchanged.
from_exif_swaps_flips(exif_orientation) ==
    CASE exif_orientation = 1 -> "NoTransforms"
      [] exif_orientation = 2 -> "FlipHorizontal"
      [] exif_orientation = 3 -> "Rotate180"
      [] exif_orientation = 4 -> "FlipVertical"
      [] exif_orientation = 5 -> "Rotate270FlipH"
      [] exif_orientation = 6 -> "Rotate90"
      [] exif_orientation = 7 -> "Rotate90FlipH"
      [] exif_orientation = 8 -> "Rotate270"
      [] OTHER -> "None"

from_exif(exif_orientation) ==
    CASE exif_orientation = 1 -> "NoTransforms"
      [] exif_orientation = 2 -> "FlipHorizontal"
      [] exif_orientation = 3 -> "Rotate180"
      [] exif_orientation = 4 -> "FlipVertical"
      [] exif_orientation = 5 -> "Rotate90FlipH"
      [] exif_orientation = 6 -> "Rotate90"
      [] exif_orientation = 7 -> "Rotate270FlipH"
      [] exif_orientation = 8 -> "Rotate270"
      [] OTHER -> "None"

to_exif(self) ==
    CASE self = "NoTransforms" -> 1
      [] self = "FlipHorizontal" -> 2
      [] self = "Rotate180" -> 3
      [] self = "FlipVertical" -> 4
      [] self = "Rotate90FlipH" -> 5
      [] self = "Rotate90" -> 6
      [] self = "Rotate270FlipH" -> 7
      [] self = "Rotate270" -> 8

\* applies_in_place with Rotate90 taken for an in-place transform.
applies_in_place_rotate90(self) ==
    CASE self = "NoTransforms" -> TRUE
      [] self = "Rotate90" -> TRUE
      [] self = "Rotate180" -> TRUE
      [] self = "Rotate270" -> FALSE
      [] self = "FlipHorizontal" -> TRUE
      [] self = "FlipVertical" -> TRUE
      [] self = "Rotate90FlipH" -> FALSE
      [] self = "Rotate270FlipH" -> FALSE

applies_in_place(self) ==
    CASE self = "NoTransforms" -> TRUE
      [] self = "Rotate90" -> FALSE
      [] self = "Rotate180" -> TRUE
      [] self = "Rotate270" -> FALSE
      [] self = "FlipHorizontal" -> TRUE
      [] self = "FlipVertical" -> TRUE
      [] self = "Rotate90FlipH" -> FALSE
      [] self = "Rotate270FlipH" -> FALSE

\* A caller holds either a metadata code to parse or a variant of its choosing.
InitOrient ==
    /\ input = [w |-> 1, h |-> 1, cs |-> "RGB", body |-> "ok", icc |-> FALSE]
    /\ width = input.w
    /\ height = input.h
    /\ orig_color_space = input.cs
    /\ limits = no_limits
    /\ consumed = FALSE
    /\ op = "new"
    /\ result = Ok
    /\ buf = [len |-> 0, written |-> 0]
    /\ reader = NoReader
    /\ decoded = <<>>
    /\ delivered = <<>>
    /\ count = 0
    /\ chunk = <<>>
    /\ code = None
    /\ in_place = None
    /\ back = "Unset"
    /\ \/ /\ exif \in {Some(n) : n \in 0..U8Max}
          /\ orientation = "Unset"
       \/ /\ exif = None
          /\ orientation \in Variants

CallFromExif ==
    /\ exif.some
    /\ orientation' = from_exif(exif.val)
    /\ UNCHANGED <<exif, code, in_place, back>>
    /\ UNCHANGED decoderVars

CallToExif ==
    /\ orientation \in Variants
    /\ code' = Some(to_exif(orientation))
    /\ UNCHANGED <<exif, orientation, in_place, back>>
    /\ UNCHANGED decoderVars

CallFromExifOnCode ==
    /\ code.some
    /\ back' = from_exif(code.val)
    /\ UNCHANGED <<exif, orientation, code, in_place>>
    /\ UNCHANGED decoderVars

CallAppliesInPlace ==
    /\ orientation \in Variants
    /\ in_place' = Some(applies_in_place(orientation))
    /\ UNCHANGED <<exif, orientation, code, back>>
    /\ UNCHANGED decoderVars

NextOrient ==
    \/ CallFromExif
    \/ CallToExif
    \/ CallFromExifOnCode
    \/ CallAppliesInPlace

SpecOrient == InitOrient /\ [][NextOrient]_vars

\* ================================================================ claims
Terminal == {"read_image", "into_reader"}

\* The header-declared size exceeds a configured width or height bound.
DimsExceed(l) ==
    \/ l.max_image_width.some /\ l.max_image_width.val < width
    \/ l.max_image_height.some /\ l.max_image_height.val < height

\* Every bound is set and admits the image and its advertised size.
LimitsAdmit(l) ==
    /\ l.max_image_width.some /\ l.max_image_width.val >= width
    /\ l.max_image_height.some /\ l.max_image_height.val >= height
    /\ l.max_alloc.some /\ l.max_alloc.val >= total_bytes

\* read_image was given a slice of the advertised size (into_reader takes none).
SizedBuffer == op = "read_image" => buf.len = total_bytes

\* C1: set_limits(L) with L.max_image_width < W or L.max_image_height < H
\* returns a Limits error from set_limits itself.
C1_SetLimitsRejectsAtOnce ==
    (op = "set_limits" /\ DimsExceed(limits)) => result.kind = "Limits"

\* C2: with limits installed whose width or height bound (either one alone)
\* is below the header-declared size, the terminal decode fails with the
\* dimension Limits error, and neither a reader nor any written byte results.
C2_DimensionBoundRejectsDecode ==
    (op \in Terminal /\ DimsExceed(limits) /\ SizedBuffer) =>
        /\ result = Err("Limits", "DimensionError")
        /\ ~reader.some
        /\ decoded = <<>>
        /\ buf.written = 0

C2_Witness ==
    /\ op = "into_reader"
    /\ ~limits.max_image_width.some
    /\ limits.max_image_height.some
    /\ limits.max_image_height.val < height
    /\ result.kind = "Limits"

\* C3: with max_alloc below the advertised size and no width or height bound,
\* the terminal decode of a well-formed image fails with the allocation
\* Limits error.
C3_AllocBoundRejectsDecode ==
    (/\ op \in Terminal
     /\ SizedBuffer
     /\ input.body = "ok"
     /\ ~limits.max_image_width.some
     /\ ~limits.max_image_height.some
     /\ limits.max_alloc.some
     /\ limits.max_alloc.val < total_bytes) =>
        result = Err("Limits", "InsufficientMemory")

\* C4: a terminal decode fails with the dimension Limits error only on account
\* of a bound that is set and exceeded: an unset width bound never rejects a
\* width, an unset height bound never rejects a height, and setting one bound
\* does not make the other axis checked.
C4_UnsetBoundNeverChecked ==
    (op \in Terminal /\ result = Err("Limits", "DimensionError")) => DimsExceed(limits)

C4_Witness ==
    /\ op \in Terminal
    /\ ~limits.max_image_width.some
    /\ limits.max_image_height.some
    /\ limits.max_image_height.val >= height
    /\ limits.max_image_height.val < width
    /\ result = Ok

\* C5: with width, height and allocation bounds that admit the image (bounds
\* equal to W, H and the advertised size included), set_limits succeeds, and
\* the terminal decode of a well-formed input succeeds and yields exactly
\* W * H * bytes_per_pixel(color_type()) bytes.
C5_AdmittingLimitsDecode ==
    /\ (op = "set_limits" /\ LimitsAdmit(limits)) => result = Ok
    /\ (op = "read_image" /\ LimitsAdmit(limits) /\ SizedBuffer /\ input.body = "ok") =>
           /\ result = Ok
           /\ buf.written = width * height * bytes_per_pixel(color_type)
    /\ (op = "into_reader" /\ LimitsAdmit(limits) /\ input.body = "ok") =>
           /\ result = Ok
           /\ reader.some
           /\ Len(reader.data) = width * height * bytes_per_pixel(color_type)

C5_Witness ==
    /\ op = "read_image"
    /\ input.body = "ok"
    /\ limits.max_image_width = Some(width)
    /\ limits.max_image_height = Some(height)
    /\ limits.max_alloc = Some(total_bytes)
    /\ result = Ok
    /\ buf.written = total_bytes

\* C6: read_image with a slice whose length differs from the advertised size
\* fails with the length-mismatch Decoding error whatever the limits are, and
\* nothing is written to the slice.
C6_LengthMismatchIsDecodingError ==
    (op = "read_image" /\ buf.len # total_bytes) =>
        /\ result = Err("Decoding", "LengthMismatch")
        /\ buf.written = 0

C6_Witness ==
    /\ op = "read_image"
    /\ buf.len = total_bytes - 1
    /\ DimsExceed(limits)
    /\ input.body = "ok"
    /\ result.kind = "Decoding"

\* The table of Exif codes 1..8 the claim fixes.
ExifTable == <<"NoTransforms", "FlipHorizontal", "Rotate180", "FlipVertical",
               "Rotate90FlipH", "Rotate90", "Rotate270FlipH", "Rotate270">>

\* C7: from_exif maps the codes 1..8 by the fixed table and every other u8 to
\* None; to_exif of the parsed variant gives the code back; from_exif of
\* to_exif(o) gives the variant o back.
C7_ExifBijection ==
    /\ (exif.some /\ orientation # "Unset") =>
           orientation = IF exif.val \in 1..8 THEN ExifTable[exif.val] ELSE "None"
    /\ (exif.some /\ code.some) => code.val = exif.val
    /\ code.some => code.val \in 1..8 /\ ExifTable[code.val] = orientation
    /\ back # "Unset" => back = orientation

C7_Witness ==
    /\ exif = Some(7)
    /\ orientation = "Rotate270FlipH"
    /\ code = Some(7)
    /\ back = "Rotate270FlipH"

\* C8: applies_in_place is true exactly for NoTransforms, Rotate180,
\* FlipHorizontal and FlipVertical, that is for the Exif codes 1..4, and false
\* for the other four variants, the codes 5..8.
C8_InPlaceExactlyFour ==
    in_place.some =>
        /\ in_place.val =
               (orientation \in {"NoTransforms", "Rotate180", "FlipHorizontal", "FlipVertical"})
        /\ exif.some => (in_place.val = (exif.val \in 1..4))

C8_Witness ==
    /\ exif = Some(6)
    /\ orientation = "Rotate90"
    /\ in_place = Some(FALSE)

\* C9: no step changes the input or what dimensions() and color_type() return;
\* scale returns the original (width, height) and changes no decoder state;
\* set_limits changes only the limits; icc_profile changes nothing.
C9_HeaderFactsImmutable ==
    [][/\ input' = input
       /\ dimensions' = dimensions
       /\ color_type' = color_type
       /\ dimensions' = <<input.w, input.h>>
       /\ color_type' = ColorType_from_jpeg(input.cs)
       /\ op' = "scale" =>
              /\ result' = OkWith(<<width, height>>)
              /\ UNCHANGED <<width, height, orig_color_space, limits, consumed>>
       /\ op' = "set_limits" =>
              UNCHANGED <<width, height, orig_color_space, consumed>>
       /\ op' = "icc_profile" =>
              UNCHANGED <<width, height, orig_color_space, limits, consumed>>
      ]_vars

C9_Witness ==
    /\ op = "scale"
    /\ limits.max_image_width.some
    /\ limits.max_image_width.val < width
    /\ width # height
    /\ result = OkWith(<<input.w, input.h>>)

\* C10: the bytes the reader has handed out are a prefix of the decoded data,
\* in order; what the reader still holds is exactly the rest; every call
\* returns the number of bytes it handed out; read hands out as much as a
\* plain cursor would; read_to_end hands out all that is left; and once all is
\* handed out every call hands out nothing.
C10_ReaderStreamsOnce ==
    reader.some =>
        /\ Len(delivered) <= Len(decoded)
        /\ delivered = SubSeq(decoded, 1, Len(delivered))
        /\ CursorRest(reader) = SubSeq(decoded, Len(delivered) + 1, Len(decoded))
        /\ op \in {"read", "read_to_end"} =>
               /\ count = Len(chunk)
               /\ count = buf.written
               /\ count <= Len(delivered)
               /\ chunk = SubSeq(delivered, Len(delivered) - count + 1, Len(delivered))
        /\ op = "read" =>
               count = Min(buf.len, Len(decoded) - (Len(delivered) - count))
        /\ op = "read_to_end" => delivered = decoded

C10_Witness ==
    /\ reader.some
    /\ op = "read"
    /\ Len(decoded) > 0
    /\ reader.data = <<>>
    /\ delivered = decoded
    /\ buf.len > 0
    /\ count = 0

====
